---- MODULE Spec2Model ----
(***************************************************************************)
(* Model of bevy_construct_prototype: the Construct protocol, the          *)
(* ConstructProp deferred-field wrapper, the ReflectConstruct bridge, the  *)
(* ConstructTuple combinator (src/src/lib.rs) and the code produced by     *)
(* #[derive(Construct)] (src/macros/src/lib.rs).                           *)
(*                                                                         *)
(* The derive macro is modelled as a function from a parsed type           *)
(* definition to the items it emits; the emitted construct function is     *)
(* then interpreted against a world that records every mutation.           *)
(* Every value is a record, so that values of different Rust types can be  *)
(* compared.                                                               *)
(***************************************************************************)
EXTENDS Integers, Sequences, FiniteSets, TLC

\* ------------------------------------------------------------------------
\* Bounds of the model
\* ------------------------------------------------------------------------

\* Construct calls are started only while the world holds at most this many
\* recorded mutations.
MaxWorld == 1

\* Largest ConstructTuple arity explored (the crate generates 0..12).
MaxArity == 2

\* ------------------------------------------------------------------------
\* Source-level naming helpers
\* ------------------------------------------------------------------------

\* Index::from(index) rendered as a member name (Rust indices are 0-based).
IndexStr == <<"0", "1", "2", "3", "4", "5", "6", "7", "8", "9", "10", "11">>

\* format_ident!("t{}", index): binding names of a tuple variant's fields.
TupleBinding == <<"t0", "t1", "t2">>

NoLabel == ""

\* const PROP
PROP == "prop"

\* ------------------------------------------------------------------------
\* The type definitions handed to the compiler
\* ------------------------------------------------------------------------

Field(ident, ty, attrs, vis) ==
    [ident |-> ident, ty |-> ty, attrs |-> attrs, vis |-> vis]

\* syn::Fields
NamedFields(fs) == [style |-> "Named", fields |-> fs]
UnnamedFields(fs) == [style |-> "Unnamed", fields |-> fs]
UnitFields == [style |-> "Unit", fields |-> <<>>]

\* The types of the program under study.  "blanket" types are Clone +
\* Default plain data, "custom" types carry a hand-written Construct
\* implementation that touches the world, the others use the derive macro.
TypeDefs ==
    [ u8 |-> [kind |-> "blanket"],
      Leaf |-> [kind |-> "custom"],
      FailA |-> [kind |-> "custom"],
      FailB |-> [kind |-> "custom"],
      Inner |-> [kind |-> "struct",
                 fields |-> NamedFields(<<
                     Field("leaf", "Leaf", {PROP}, "pub"),
                     Field("x", "u8", {}, "inherited") >>)],
      Outer |-> [kind |-> "struct",
                 fields |-> NamedFields(<<
                     Field("inner", "Inner", {PROP}, "pub(crate)"),
                     Field("first", "FailA", {PROP}, "pub"),
                     Field("second", "FailB", {"doc", PROP}, "inherited") >>)],
      Pair |-> [kind |-> "struct",
                fields |-> UnnamedFields(<<
                    Field(NoLabel, "FailB", {PROP}, "pub"),
                    Field(NoLabel, "Leaf", {PROP}, "pub(super)") >>)],
      Shape |-> [kind |-> "enum",
                 variants |-> <<
                     [ident |-> "V1", fields |-> NamedFields(<<
                         Field("a", "Leaf", {PROP}, "inherited"),
                         Field("x", "u8", {}, "inherited") >>)],
                     [ident |-> "V2", fields |-> UnnamedFields(<<
                         Field(NoLabel, "FailA", {PROP}, "inherited"),
                         Field(NoLabel, "u8", {}, "inherited") >>)],
                     [ident |-> "V3", fields |-> UnitFields] >>] ]

TypeNames == DOMAIN TypeDefs
BlanketTypes == {t \in TypeNames : TypeDefs[t].kind = "blanket"}
CustomTypes == {t \in TypeNames : TypeDefs[t].kind = "custom"}
StructTypes == {t \in TypeNames : TypeDefs[t].kind = "struct"}
EnumTypes == {t \in TypeNames : TypeDefs[t].kind = "enum"}
DerivedTypes == StructTypes \cup EnumTypes

Range(s) == {s[i] : i \in DOMAIN s}

\* ------------------------------------------------------------------------
\* The derive macro
\* ------------------------------------------------------------------------

\* The qualifier copied from the source field as it stands.
maybe_pub_Exact(field) == field.vis

\* let maybe_pub = if is_pub { quote!(pub) } else { quote!() };
maybe_pub(field) ==
    LET is_pub == field.vis = "pub"
    IN  IF is_pub THEN "pub" ELSE "inherited"

\* field.attrs.iter().find(|a| a.path().is_ident(PROP)).is_some()
is_prop(field) == PROP \in field.attrs

\* The binding name formed without the field's index.
enum_tuple_ident_First(index) == TupleBinding[1]

\* let enum_tuple_ident = format_ident!("t{}", index);
enum_tuple_ident(index) == TupleBinding[index]

\* The three token streams struct_impl pushes for one field.
\* props_field: the field of the props type; props_default: its entry in the
\* Default impl; from_props: the field initialiser of the construct body.
FieldTokens(field, index, is_named, is_enum) ==
    IF is_named
    THEN IF is_prop(field)
         THEN [props_field |-> [vis |-> maybe_pub(field), ident |-> field.ident,
                                wrapped |-> TRUE, ty |-> field.ty],
               props_default |-> [ident |-> field.ident, expr |-> "PropsOfDefault"],
               from_props |-> [label |-> field.ident, expr |-> "resolve",
                               place |-> IF is_enum THEN <<field.ident>>
                                         ELSE <<"props", field.ident>>]]
         ELSE [props_field |-> [vis |-> maybe_pub(field), ident |-> field.ident,
                                wrapped |-> FALSE, ty |-> field.ty],
               props_default |-> [ident |-> field.ident, expr |-> "Default"],
               from_props |-> [label |-> field.ident, expr |-> "move",
                               place |-> IF is_enum THEN <<field.ident>>
                                         ELSE <<"props", field.ident>>]]
    ELSE IF is_prop(field)
         THEN [props_field |-> [vis |-> maybe_pub(field), ident |-> NoLabel,
                                wrapped |-> TRUE, ty |-> field.ty],
               props_default |-> [ident |-> NoLabel, expr |-> "PropsOfDefault"],
               from_props |-> IF is_enum
                              THEN [label |-> NoLabel, expr |-> "resolve",
                                    place |-> <<enum_tuple_ident(index)>>]
                              ELSE [label |-> IndexStr[index], expr |-> "resolve",
                                    place |-> <<"props", IndexStr[index]>>]]
         ELSE [props_field |-> [vis |-> maybe_pub(field), ident |-> NoLabel,
                                wrapped |-> FALSE, ty |-> field.ty],
               props_default |-> [ident |-> NoLabel, expr |-> "Default"],
               from_props |-> IF is_enum
                              THEN [label |-> NoLabel, expr |-> "move",
                                    place |-> <<enum_tuple_ident(index)>>]
                              ELSE [label |-> NoLabel, expr |-> "move",
                                    place |-> <<"props", IndexStr[index]>>]]

\* The StructImpl returned once every field has pushed its tokens.
StructImpl(is_named, toks) ==
    [is_named |-> is_named,
     from_props_fields |-> [i \in DOMAIN toks |-> toks[i].from_props],
     props_fields |-> [i \in DOMAIN toks |-> toks[i].props_field],
     props_fields_defaults |-> [i \in DOMAIN toks |-> toks[i].props_default]]

\* fn struct_impl(fields, construct_path, is_enum) -> StructImpl
struct_impl(fields, is_enum) ==
    StructImpl(fields.style = "Named",
               [i \in 1..Len(fields.fields) |->
                   FieldTokens(fields.fields[i], i, fields.style = "Named", is_enum)])

\* f.ident.clone().unwrap_or_else(|| format_ident!("t{}", i))
destructure_fields(fields) ==
    [i \in 1..Len(fields.fields) |->
        IF fields.fields[i].ident # NoLabel THEN fields.fields[i].ident
        ELSE TupleBinding[i]]

\* The props variant and the match arm pushed for one variant.
VariantItems(variant, shape, si) ==
    [props_entry |-> [ident |-> variant.ident, shape |-> shape,
                      props_fields |-> si.props_fields],
     match_arm |-> [pattern |-> [ident |-> variant.ident, shape |-> shape,
                                 bindings |-> destructure_fields(variant.fields)],
                    build |-> [ident |-> variant.ident, shape |-> shape,
                               from_props_fields |-> si.from_props_fields]]]

\* One iteration of the loop over data_enum.variants.
VariantTokens(variant) ==
    IF Len(variant.fields.fields) = 0
    THEN VariantItems(variant, "Unit", StructImpl(FALSE, <<>>))
    ELSE VariantItems(variant, variant.fields.style,
                      struct_impl(variant.fields, TRUE))

\* The items emitted for Data::Struct: the props type, its Default impl and
\* the Construct impl.
StructItems(si) ==
    [data |-> "struct",
     props_type |-> [shape |-> IF si.is_named THEN "Named" ELSE "Unnamed",
                     props_fields |-> si.props_fields],
     default_impl |-> << si.props_fields_defaults >>,
     construct |-> [from_props_fields |-> si.from_props_fields]]

\* The items emitted for Data::Enum: the props type and the Construct impl.
\* No Default impl is among them.
EnumItems(vts) ==
    [data |-> "enum",
     props_type |-> [variants |-> [i \in DOMAIN vts |-> vts[i].props_entry]],
     default_impl |-> <<>>,
     construct |-> [arms |-> [i \in DOMAIN vts |-> vts[i].match_arm]]]

\* pub fn derive_construct(input: TokenStream) -> TokenStream
derive_construct(ast) ==
    IF ast.kind = "struct"
    THEN StructItems(struct_impl(ast.fields, FALSE))
    ELSE EnumItems([i \in DOMAIN ast.variants |-> VariantTokens(ast.variants[i])])

\* The expansion of #[derive(Construct)] on every derived type.
Generated == [t \in DerivedTypes |-> derive_construct(TypeDefs[t])]

\* ------------------------------------------------------------------------
\* Values
\* ------------------------------------------------------------------------

NoValue == [none |-> TRUE]

Ok(v) == [ok |-> TRUE, val |-> v]
Err(e) == [ok |-> FALSE, err |-> e]

\* The outcome of `.unwrap()` on a failed downcast.
Panic == [panic |-> "unwrap on Err"]

\* enum ConstructProp<C: Construct> { Props(C::Props), Value(C) }
ConstructProp_Props(p) == [tag |-> "Props", val |-> p]
ConstructProp_Value(v) == [tag |-> "Value", val |-> v]

\* enum ConstructError: the variants the custom types of TypeDefs return.
CustomError(t) ==
    IF t = "FailB" THEN [err |-> "MissingResource", type_name |-> t]
    ELSE [err |-> "Custom", msg |-> t]

\* Key of the i-th field in a value of the given field list.
FieldKey(fields, i) ==
    IF fields.style = "Named" THEN fields.fields[i].ident ELSE IndexStr[i]

FieldKeys(fields) == {FieldKey(fields, i) : i \in 1..Len(fields.fields)}

FieldAt(fields, k) ==
    fields.fields[CHOOSE i \in 1..Len(fields.fields) : FieldKey(fields, i) = k]

\* Key of the i-th field of a generated props type.
PropsFieldKey(props_fields, i) ==
    IF props_fields[i].ident # NoLabel THEN props_fields[i].ident ELSE IndexStr[i]

\* <T as Default>::default() of the plain-data and hand-written types.
NaturalDefault(t) ==
    IF TypeDefs[t].kind = "blanket" THEN [prim |-> 0]
    ELSE IF t = "Leaf" THEN [cp |-> "ok"]
    ELSE [cp |-> "bad"]

RECURSIVE PropsDefault(_)

\* One entry of the generated `fn default()`: the value it gives the field.
DefaultEntry(entry, ty) ==
    IF entry.expr = "PropsOfDefault"
    THEN ConstructProp_Props(PropsDefault(ty))
    ELSE NaturalDefault(ty)

\* The body of the generated `fn default()`.
DefaultFields(ds, pf) ==
    [k \in {PropsFieldKey(pf, i) : i \in DOMAIN pf} |->
        DefaultEntry(ds[CHOOSE i \in DOMAIN pf : PropsFieldKey(pf, i) = k],
                     pf[CHOOSE i \in DOMAIN pf : PropsFieldKey(pf, i) = k].ty)]

\* The Default impl among the generated items, run; NoValue without one.
RunDefault(t, g) ==
    IF g.default_impl = <<>> THEN NoValue
    ELSE [props_of |-> t,
          fields |-> DefaultFields(g.default_impl[1], g.props_type.props_fields)]

\* <T::Props as Default>::default()
PropsDefault(t) ==
    IF t \notin DerivedTypes THEN NaturalDefault(t)
    ELSE RunDefault(t, Generated[t])

HasDefault(t) == PropsDefault(t) # NoValue

\* TypeId of T::Props.
PropsTypeId(t) ==
    IF TypeDefs[t].kind = "blanket" THEN <<t>> ELSE <<t, "Props">>

\* ------------------------------------------------------------------------
\* Construct::construct
\* ------------------------------------------------------------------------
\* A call is evaluated on a world, the sequence of mutations made through
\* the EntityWorldMut so far, and yields [res, world, calls].  calls is the
\* record of the evaluation: calls.log lists every entry into and return
\* from a construct function with the world seen at that moment, calls.at
\* is the path of fields whose initialiser is being evaluated.

NoCalls == [log |-> <<>>, at |-> <<>>]

\* Entry into t's construct function.
Invoke(t, props, world, calls) ==
    [calls EXCEPT !.log = Append(@, [ev |-> "call", ty |-> t, props |-> props,
                                     at |-> calls.at, saw |-> world])]

\* Return from the construct function entered at path `at`.
Returned(at, r) ==
    [r EXCEPT !.calls.log = Append(@, [ev |-> "ret", at |-> at, res |-> r.res,
                                       saw |-> r.world])]

\* The initialiser of field k starts and ends.
Enter(calls, k) == [calls EXCEPT !.at = Append(@, k)]
Leave(depth, r) == [r EXCEPT !.calls.at = SubSeq(@, 1, depth)]

\* The blanket impl returning a fresh default instead of its props.
BlanketConstruct_Default(t, world, calls, props) ==
    [res |-> Ok([prim |-> 0]), world |-> world, calls |-> calls]

\* impl<T: Clone + Default> Construct for T
BlanketConstruct(t, world, calls, props) ==
    [res |-> Ok(props), world |-> world, calls |-> calls]

\* A hand-written impl Construct: it records a mutation of the world, then
\* fails when its props are "bad" and otherwise returns the built value.
CustomConstruct(t, world, calls, props) ==
    [res |-> IF props.cp = "bad" THEN Err(CustomError(t))
             ELSE Ok([ty |-> t, v |-> "built"]),
     world |-> Append(world, [by |-> t, props |-> props]),
     calls |-> calls]

\* A conversion that wraps the nested error in a new one.
From_from_Wrapped(e) == [err |-> "InvalidProps", message |-> e]

\* From<ConstructError> for ConstructError, applied by `?`: the identity.
From_from(e) == e

\* The `?` operator: an Err leaves the enclosing function with the
\* converted error, an Ok continues with its value.
QuestionMark(r) ==
    IF r.res.ok THEN r ELSE [r EXCEPT !.res = Err(From_from(r.res.err))]

RECURSIVE construct(_, _, _, _)

\* ResolveProp with the Value arm constructing as well, from default props.
ResolveProp_IgnoreValue(ty, world, calls, cp) ==
    IF cp.tag = "Props"
    THEN QuestionMark(construct(ty, world, calls, cp.val))
    ELSE QuestionMark(construct(ty, world, calls, PropsDefault(ty)))

\* ResolveProp with the Props arm constructing from default props instead
\* of the props it holds.
ResolveProp_DropProps(ty, world, calls, cp) ==
    IF cp.tag = "Props"
    THEN QuestionMark(construct(ty, world, calls, PropsDefault(ty)))
    ELSE [res |-> Ok(cp.val), world |-> world, calls |-> calls]

\* match <place> { ConstructProp::Props(p) => Construct::construct(_context, p)?,
\*                 ConstructProp::Value(v) => v }
ResolveProp(ty, world, calls, cp) ==
    IF cp.tag = "Props"
    THEN QuestionMark(construct(ty, world, calls, cp.val))
    ELSE [res |-> Ok(cp.val), world |-> world, calls |-> calls]

\* The value a place expression names: props.<field> or a pattern binding.
PlaceValue(place, props_fields, env) ==
    IF Len(place) = 2 THEN props_fields[place[2]] ELSE env[place[1]]

\* Key under which the i-th initialiser stores its value: its label, or its
\* position when it is a positional argument.
InitKey(inits, i) ==
    IF inits[i].label # NoLabel THEN inits[i].label ELSE IndexStr[i]

\* One initialiser of the generated body; ty is the type of the field it
\* initialises.
EvalInit(init, k, ty, world, calls, props_fields, env) ==
    IF init.expr = "resolve"
    THEN Leave(Len(calls.at),
               ResolveProp(ty, world, Enter(calls, k),
                           PlaceValue(init.place, props_fields, env)))
    ELSE [res |-> Ok(PlaceValue(init.place, props_fields, env)),
          world |-> world, calls |-> calls]

RECURSIVE EvalInits(_, _, _, _, _)

\* After the i-th initialiser returned r: leave with its Err, or store its
\* value under key k and go on with the next initialiser.
AfterInit(body, i, acc, k, r) ==
    IF ~r.res.ok THEN r
    ELSE EvalInits(body, r.world, r.calls, i + 1, acc @@ (k :> r.res.val))

\* The initialisers #(#from_props_fields)* evaluated in the order written.
\* body = [fields, inits, props_fields, env]; acc holds the fields built.
EvalInits(body, world, calls, i, acc) ==
    IF i > Len(body.inits)
    THEN [res |-> Ok(acc), world |-> world, calls |-> calls]
    ELSE AfterInit(body, i, acc, InitKey(body.inits, i),
                   EvalInit(body.inits[i], InitKey(body.inits, i),
                            FieldAt(body.fields, InitKey(body.inits, i)).ty,
                            world, calls, body.props_fields, body.env))

RestoreOnErr(world, r) == IF r.res.ok THEN r ELSE [r EXCEPT !.world = world]

\* Ok(Self { ... }) around the initialisers.
OkSelf(t, r) ==
    IF r.res.ok THEN [r EXCEPT !.res = Ok([ty |-> t, fields |-> r.res.val])]
    ELSE r

\* StructConstruct undoing the nested constructs' mutations when it fails.
StructConstruct_Rollback(t, world, calls, props) ==
    RestoreOnErr(world,
        OkSelf(t, EvalInits([fields |-> TypeDefs[t].fields,
                             inits |-> Generated[t].construct.from_props_fields,
                             props_fields |-> props.fields,
                             env |-> <<>>],
                            world, calls, 1, <<>>)))

\* The construct function generated for a struct:
\* Ok(Self { #(#from_props_fields)* })
StructConstruct(t, world, calls, props) ==
    OkSelf(t, EvalInits([fields |-> TypeDefs[t].fields,
                         inits |-> Generated[t].construct.from_props_fields,
                         props_fields |-> props.fields,
                         env |-> <<>>],
                        world, calls, 1, <<>>))

\* The arm of `match props { ... }` whose pattern matches the props value.
MatchArm(arms, props) ==
    arms[CHOOSE i \in DOMAIN arms : arms[i].pattern.ident = props.variant]

\* The bindings a match arm's pattern introduces.
PatternEnv(pattern, props) ==
    [b \in Range(pattern.bindings) |->
        props.fields[IF pattern.shape = "Named" THEN b
                     ELSE IndexStr[CHOOSE i \in DOMAIN pattern.bindings :
                                      pattern.bindings[i] = b]]]

\* The fields of the variant of t named ident.
VariantFields(t, ident) ==
    TypeDefs[t].variants[CHOOSE i \in DOMAIN TypeDefs[t].variants :
                            TypeDefs[t].variants[i].ident = ident].fields

\* Ok(<variant>) around the initialisers of a match arm.
OkVariant(t, ident, r) ==
    IF r.res.ok
    THEN [r EXCEPT !.res = Ok([ty |-> t, variant |-> ident, fields |-> r.res.val])]
    ELSE r

\* The right-hand side of a match arm: #struct_name::#ident { ... }
RunArm(t, arm, props, world, calls) ==
    OkVariant(t, arm.build.ident,
              EvalInits([fields |-> VariantFields(t, arm.build.ident),
                         inits |-> arm.build.from_props_fields,
                         props_fields |-> <<>>,
                         env |-> PatternEnv(arm.pattern, props)],
                        world, calls, 1, <<>>))

\* The construct function generated for an enum: Ok(match props { ... })
EnumConstruct(t, world, calls, props) ==
    RunArm(t, MatchArm(Generated[t].construct.arms, props), props, world, calls)

\* Which impl of Construct a type has.
ImplKind(t) == TypeDefs[t].kind

\* <t as Construct>::construct(context, props)
construct(t, world, calls, props) ==
    Returned(calls.at,
        CASE ImplKind(t) = "blanket" ->
                BlanketConstruct(t, world, Invoke(t, props, world, calls), props)
          [] ImplKind(t) = "custom" ->
                CustomConstruct(t, world, Invoke(t, props, world, calls), props)
          [] ImplKind(t) = "struct" ->
                StructConstruct(t, world, Invoke(t, props, world, calls), props)
          [] ImplKind(t) = "enum" ->
                EnumConstruct(t, world, Invoke(t, props, world, calls), props))

RECURSIVE TupleElems(_, _, _, _, _, _)

\* AfterElem constructing the remaining elements before it reports the Err.
AfterElem_Eager(ts, ps, i, acc, r) ==
    IF ~r.res.ok
    THEN [TupleElems(ts, ps, r.world, r.calls, i + 1, acc) EXCEPT !.res = r.res]
    ELSE TupleElems(ts, ps, r.world, r.calls, i + 1, Append(acc, r.res.val))

\* After element i returned r: `?` leaves with its Err, otherwise the value
\* becomes the i-th element and the next element is constructed.
AfterElem(ts, ps, i, acc, r) ==
    IF ~r.res.ok THEN r
    ELSE TupleElems(ts, ps, r.world, r.calls, i + 1, Append(acc, r.res.val))

\* ($(<$construct as Construct>::construct(_entity, $construct)?,)*)
TupleElems(ts, ps, world, calls, i, acc) ==
    IF i > Len(ts)
    THEN [res |-> Ok(acc), world |-> world, calls |-> calls]
    ELSE AfterElem(ts, ps, i, acc,
                   Leave(Len(calls.at),
                         QuestionMark(construct(ts[i], world,
                                                Enter(calls, IndexStr[i]), ps[i]))))

\* Ok(ConstructTuple((...)))
OkTuple(r) ==
    IF r.res.ok
    THEN [r EXCEPT !.res = Ok([ty |-> "ConstructTuple", elems |-> r.res.val])]
    ELSE r

\* impl Construct for ConstructTuple<(P0, ..., Pn)>
ConstructTuple_construct(ts, world, calls, props) ==
    Returned(calls.at,
        OkTuple(TupleElems(ts, props.tuple, world,
                           Invoke("ConstructTuple", props, world, calls), 1, <<>>)))

\* ReflectConstruct::from_type::<S>().default_props
default_props(S) == [type_id |-> PropsTypeId(S), val |-> PropsDefault(S)]

\* Ok(Box::new(...)) around the instance.
OkBox(S, r) ==
    IF r.res.ok THEN [r EXCEPT !.res = Ok([type_id |-> <<S>>, val |-> r.res.val])]
    ELSE r

\* The descriptor's construct reporting a failed downcast as an error.
Reflect_construct_ErrOnMismatch(S, boxed, world, calls) ==
    IF boxed.type_id # PropsTypeId(S)
    THEN [res |-> Err([err |-> "InvalidProps", message |-> "downcast"]),
          world |-> world, calls |-> calls]
    ELSE OkBox(S, QuestionMark(construct(S, world, calls, boxed.val)))

\* ReflectConstruct::from_type::<S>().construct
Reflect_construct(S, boxed, world, calls) ==
    IF boxed.type_id # PropsTypeId(S)
    THEN [res |-> Panic, world |-> world, calls |-> calls]
    ELSE OkBox(S, QuestionMark(construct(S, world, calls, boxed.val)))

\* ------------------------------------------------------------------------
\* The values a caller can write
\* ------------------------------------------------------------------------

RECURSIVE FieldProduct(_)

\* All field maps over a sequence of [key, dom] pairs.
FieldProduct(kd) ==
    IF kd = <<>> THEN {<<>>}
    ELSE {(kd[1].key :> x) @@ rest :
            x \in kd[1].dom, rest \in FieldProduct(Tail(kd))}

RECURSIVE ValueDomain(_)

\* Instances of a type.
ValueDomain(t) ==
    LET of(fields) == FieldProduct([i \in 1..Len(fields.fields) |->
                        [key |-> FieldKey(fields, i),
                         dom |-> ValueDomain(fields.fields[i].ty)]])
    IN  CASE TypeDefs[t].kind = "blanket" -> {[prim |-> 0], [prim |-> 1]}
          [] TypeDefs[t].kind = "custom" ->
                {[ty |-> t, v |-> "built"], [ty |-> t, v |-> "given"]}
          [] TypeDefs[t].kind = "struct" ->
                {[ty |-> t, fields |-> f] : f \in of(TypeDefs[t].fields)}
          [] TypeDefs[t].kind = "enum" ->
                UNION {{[ty |-> t, variant |-> v.ident, fields |-> f] :
                          f \in of(v.fields)} : v \in Range(TypeDefs[t].variants)}

RECURSIVE PropsDomain(_)

\* Values of one field of a generated props type.
PropsFieldDomain(pf) ==
    IF pf.wrapped
    THEN {ConstructProp_Props(p) : p \in PropsDomain(pf.ty)}
         \cup {ConstructProp_Value(v) : v \in ValueDomain(pf.ty)}
    ELSE ValueDomain(pf.ty)

\* Values of T::Props.
PropsDomain(t) ==
    LET of(pfs) == FieldProduct([i \in DOMAIN pfs |->
                        [key |-> PropsFieldKey(pfs, i),
                         dom |-> PropsFieldDomain(pfs[i])]])
    IN  CASE TypeDefs[t].kind = "blanket" -> ValueDomain(t)
          [] TypeDefs[t].kind = "custom" -> {[cp |-> "ok"], [cp |-> "bad"]}
          [] TypeDefs[t].kind = "struct" ->
                {[props_of |-> t, fields |-> f] :
                    f \in of(Generated[t].props_type.props_fields)}
          [] TypeDefs[t].kind = "enum" ->
                UNION {{[props_of |-> t, variant |-> e.ident, fields |-> f] :
                          f \in of(e.props_fields)} :
                       e \in Range(Generated[t].props_type.variants)}

PropsDomainOf == [t \in TypeNames |-> PropsDomain(t)]

\* The tuple elements explored: an element type with a props value for it.
TupleElemChoices ==
    {[ty |-> "u8", props |-> [prim |-> 1]],
     [ty |-> "Leaf", props |-> [cp |-> "ok"]],
     [ty |-> "Leaf", props |-> [cp |-> "bad"]],
     [ty |-> "FailA", props |-> [cp |-> "bad"]]}

\* Sequences over S of length at most n.
SeqUpTo(S, n) == UNION {[1..k -> S] : k \in 0..n}

\* TypeId of the props tuple (P0::Props, ..., Pn::Props).
TuplePropsTypeId(ts) ==
    LET f[i \in 0..Len(ts)] ==
            IF i = 0 THEN <<"(">> ELSE f[i - 1] \o PropsTypeId(ts[i]) \o <<",">>
    IN  f[Len(ts)] \o <<")">>

\* Types registered with a ReflectConstruct (S: Reflect + Bundle).
ReflectTypes == {"Leaf", "Inner", "Pair"}

\* ------------------------------------------------------------------------
\* State
\* ------------------------------------------------------------------------

VARIABLES
    expanded, \* the derive expansions done so far: type -> generated items
    world,    \* the mutations made through the EntityWorldMut, in order
    held,     \* the props value the caller holds, NoValue once moved
    result,   \* what the last call returned, NoValue before any call
    call      \* the last call: its kind, target, argument, the world it
              \* saw and the log of its evaluation

vars == <<expanded, world, held, result, call>>

NoCall == [op |-> "none"]

Init ==
    /\ expanded = <<>>
    /\ world = <<>>
    /\ held = NoValue
    /\ result = NoValue
    /\ call = NoCall

\* The compiler expands #[derive(Construct)] on one more type.
Derive(t) ==
    /\ t \notin DOMAIN expanded
    /\ expanded' = expanded @@ (t :> derive_construct(TypeDefs[t]))
    /\ UNCHANGED <<world, held, result, call>>

\* The program runs once every derive is expanded.
Compiled == DOMAIN expanded = DerivedTypes

Hold(target, type_id, val, via) ==
    [target |-> target, type_id |-> type_id, val |-> val, via |-> via]

Erased(h) == h.via # "static"

Build(h) ==
    /\ Compiled
    /\ held = NoValue
    /\ Len(world) <= MaxWorld
    /\ held' = h
    /\ result' = NoValue
    /\ call' = NoCall
    /\ UNCHANGED <<expanded, world>>

\* let props = <T::Props as Default>::default();
DefaultProps(t) ==
    /\ HasDefault(t)
    /\ Build(Hold(<<t>>, PropsTypeId(t), PropsDefault(t), "static"))

\* The caller writes a props value out in full (struct props are built
\* from their default by assigning fields).
LiteralProps(t, p) ==
    Build(Hold(<<t>>, PropsTypeId(t), p, "static"))

\* props.<k> = x;
SetField(t, k, x) ==
    /\ held # NoValue
    /\ ~Erased(held)
    /\ held.target = <<t>>
    /\ held.type_id = PropsTypeId(t)
    /\ held.val.fields[k] # x
    /\ held' = [held EXCEPT !.val.fields[k] = x]
    /\ UNCHANGED <<expanded, world, result, call>>

\* The caller writes the props of a ConstructTuple.
TupleProps(ts, ps) ==
    Build(Hold(ts, TuplePropsTypeId(ts), [tuple |-> ps], "static"))

\* (reflect.default_props)() through the descriptor of S
ReflectDefaultProps(S) ==
    Build(Hold(<<S>>, default_props(S).type_id, default_props(S).val,
               "default_props"))

\* Box::new(props) as Box<dyn Reflect>
BoxProps ==
    /\ held # NoValue
    /\ ~Erased(held)
    /\ Len(held.target) = 1
    /\ held.target[1] \in ReflectTypes
    /\ held.type_id = PropsTypeId(held.target[1])
    /\ held' = [held EXCEPT !.via = "Box::new"]
    /\ UNCHANGED <<expanded, world, result, call>>

Return(op, target, r) ==
    /\ world' = r.world
    /\ result' = r.res
    /\ call' = [op |-> op, target |-> target, arg |-> held, pre |-> world,
                log |-> r.calls.log]
    /\ held' = NoValue
    /\ UNCHANGED expanded

\* T::construct(&mut entity, props)
Construct ==
    /\ held # NoValue
    /\ ~Erased(held)
    /\ Len(held.target) = 1
    /\ held.type_id = PropsTypeId(held.target[1])
    /\ Return("construct", held.target,
              construct(held.target[1], world, NoCalls, held.val))

\* ConstructTuple::<(P0, ..., Pn)>::construct(&mut entity, props)
ConstructTuple ==
    /\ held # NoValue
    /\ ~Erased(held)
    /\ held.type_id = TuplePropsTypeId(held.target)
    /\ Return("tuple", held.target,
              ConstructTuple_construct(held.target, world, NoCalls, held.val))

\* (reflect.construct)(boxed, &mut entity) through the descriptor of S
ReflectConstruct(S) ==
    /\ held # NoValue
    /\ Erased(held)
    /\ Return("reflect", <<S>>,
              Reflect_construct(S, held, world, NoCalls))

Next ==
    \/ \E t \in DerivedTypes : Derive(t)
    \/ \E t \in TypeNames : DefaultProps(t)
    \/ \E t \in TypeNames \ StructTypes :
         \E p \in PropsDomainOf[t] : LiteralProps(t, p)
    \/ \E t \in StructTypes :
         \E i \in DOMAIN Generated[t].props_type.props_fields :
           \E x \in PropsFieldDomain(Generated[t].props_type.props_fields[i]) :
             SetField(t, PropsFieldKey(Generated[t].props_type.props_fields, i), x)
    \/ \E es \in SeqUpTo(TupleElemChoices, MaxArity) :
         TupleProps([i \in DOMAIN es |-> es[i].ty],
                    [i \in DOMAIN es |-> es[i].props])
    \/ \E S \in ReflectTypes : ReflectDefaultProps(S)
    \/ BoxProps
    \/ Construct
    \/ ConstructTuple
    \/ \E S \in ReflectTypes : ReflectConstruct(S)

Spec == Init /\ [][Next]_vars

\* ------------------------------------------------------------------------
\* Reading the log of the last call
\* ------------------------------------------------------------------------

Called == call.op # "none"

Log == call.log

IsOk(r) == "ok" \in DOMAIN r /\ r.ok
IsErr(r) == "ok" \in DOMAIN r /\ ~r.ok

IsPrefix(p, q) == Len(p) <= Len(q) /\ SubSeq(q, 1, Len(p)) = p

CallIdx == {i \in DOMAIN Log : Log[i].ev = "call"}
RetIdx == {i \in DOMAIN Log : Log[i].ev = "ret"}

\* The return that ends the call entered at log position i.
RetOf(i) ==
    CHOOSE j \in RetIdx :
        /\ j > i
        /\ Log[j].at = Log[i].at
        /\ \A m \in RetIdx : (m > i /\ Log[m].at = Log[i].at) => j <= m

\* The calls made for the initialiser of field k of the call entered at i.
ChildCalls(i, k) ==
    {j \in CallIdx : i < j /\ j < RetOf(i) /\ Log[j].at = Append(Log[i].at, k)}

\* The first failing return of the log.
FirstErr ==
    CHOOSE j \in RetIdx :
        /\ ~Log[j].res.ok
        /\ \A m \in RetIdx : ~Log[m].res.ok => j <= m

\* The source fields a props value of derived type t stands for.
SourceFields(t, props) ==
    IF t \in StructTypes THEN TypeDefs[t].fields
    ELSE VariantFields(t, props.variant)

FieldIdx(fields, k) ==
    CHOOSE i \in 1..Len(fields.fields) : FieldKey(fields, i) = k

DeferredKeys(fields) ==
    {FieldKey(fields, i) : i \in {n \in 1..Len(fields.fields) :
                                    PROP \in fields.fields[n].attrs}}

DirectKeys(fields) == FieldKeys(fields) \ DeferredKeys(fields)

\* Log positions where the construct of a derived type is entered.
DerivedCalls == {i \in CallIdx : Log[i].ty \in DerivedTypes}

\* ------------------------------------------------------------------------
\* Claims
\* ------------------------------------------------------------------------

\* C1: in every construct of a derived struct or enum variant, a deferred
\* field whose props hold ConstructProp::Value(v) causes no nested construct
\* call (and so no mutation of the world), and on success the output field
\* is v itself.
C1_ValueSkipsNestedConstruct ==
    Called =>
      \A i \in DerivedCalls :
        LET p == Log[i].props
            src == SourceFields(Log[i].ty, p)
            ret == Log[RetOf(i)]
            valued == {k \in DeferredKeys(src) : p.fields[k].tag = "Value"}
        IN  /\ \A k \in valued :
                 /\ ~\E j \in CallIdx :
                        /\ i < j /\ j < RetOf(i)
                        /\ IsPrefix(Append(Log[i].at, k), Log[j].at)
                 /\ ret.res.ok => ret.res.val.fields[k] = p.fields[k].val
            /\ valued = DeferredKeys(src) =>
                 /\ ret.saw = Log[i].saw
                 /\ RetOf(i) = i + 1
                 /\ ret.res.ok

\* C1 witness: Outer was constructed successfully with `first` given as a
\* value while `inner` was resolved from nested props.
C1_Witness ==
    /\ call.op = "construct"
    /\ call.target = <<"Outer">>
    /\ call.arg.val.fields["first"] = ConstructProp_Value([ty |-> "FailA", v |-> "given"])
    /\ call.arg.val.fields["inner"].tag = "Props"
    /\ IsOk(result)
    /\ Len(world) > Len(call.pre)

\* Whether the initialiser of field k of the call entered at i is reached:
\* every deferred field declared before k was a value or resolved to Ok.
Reached(i, src, k) ==
    \A k2 \in DeferredKeys(src) :
        (FieldIdx(src, k2) < FieldIdx(src, k) /\ Log[i].props.fields[k2].tag = "Props")
            => \E j \in ChildCalls(i, k2) : Log[RetOf(j)].res.ok

\* C2: in every construct of a derived type, at any depth, a deferred field
\* holding ConstructProp::Props(p) has the field type's construct invoked
\* exactly once once its initialiser is reached (never more than once), with
\* p and with the world as it stands at that moment; when the enclosing
\* construct succeeds the output field is what that call returned.
C2_PropsInvokesNestedConstructOnce ==
    Called =>
      \A i \in DerivedCalls :
        LET p == Log[i].props
            src == SourceFields(Log[i].ty, p)
            ret == Log[RetOf(i)]
        IN  \A k \in DeferredKeys(src) :
              p.fields[k].tag = "Props" =>
                /\ Cardinality(ChildCalls(i, k)) <= 1
                /\ \A j \in ChildCalls(i, k) :
                     /\ Log[j].ty = FieldAt(src, k).ty
                     /\ Log[j].props = p.fields[k].val
                     /\ Log[j].saw = Log[j - 1].saw
                     /\ IsPrefix(Log[i].saw, Log[j].saw)
                /\ Reached(i, src, k) => ChildCalls(i, k) # {}
                /\ ret.res.ok =>
                     \E j \in ChildCalls(i, k) :
                         /\ Log[RetOf(j)].res.ok
                         /\ ret.res.val.fields[k] = Log[RetOf(j)].res.val

\* C2 witness: Outer built from props whose `inner` is nested props with a
\* nested-props `leaf`: the recursion reached the third level and succeeded.
C2_Witness ==
    /\ call.op = "construct"
    /\ call.target = <<"Outer">>
    /\ IsOk(result)
    /\ \E j \in CallIdx : Log[j].at = <<"inner", "leaf">> /\ Log[j].ty = "Leaf"
    /\ result.val.fields["inner"].fields["leaf"] = [ty |-> "Leaf", v |-> "built"]

RECURSIVE ExpectedErr(_, _)

\* The error the spec gives a construct of type t from props p: that of the
\* first failing deferred field, depth-first in declaration order; NoValue
\* when nothing fails.
ExpectedErr(t, p) ==
    IF t \in CustomTypes
    THEN IF p.cp = "bad" THEN CustomError(t) ELSE NoValue
    ELSE IF t \notin DerivedTypes THEN NoValue
    ELSE LET src == SourceFields(t, p)
             err(n) == IF PROP \in src.fields[n].attrs
                          /\ p.fields[FieldKey(src, n)].tag = "Props"
                       THEN ExpectedErr(src.fields[n].ty, p.fields[FieldKey(src, n)].val)
                       ELSE NoValue
             failing == {n \in 1..Len(src.fields) : err(n) # NoValue}
         IN  IF failing = {} THEN NoValue
             ELSE err(CHOOSE n \in failing : \A m \in failing : n <= m)

\* C3: a failing construct of a derived struct returns the error of the
\* first failing deferred field, depth-first in declaration order, exactly
\* as the innermost construct returned it; nested constructs are entered in
\* declaration order and none is entered after the first failure, so of two
\* deferred fields that would both fail only the first is ever resolved.
C3_FirstErrorInDeclarationOrder ==
    (call.op = "construct" /\ call.target[1] \in StructTypes) =>
      /\ IsErr(result) <=> ExpectedErr(call.target[1], call.arg.val) # NoValue
      /\ IsErr(result) =>
           /\ result.err = ExpectedErr(call.target[1], call.arg.val)
           /\ result.err = Log[FirstErr].res.err
           /\ \A j \in CallIdx : j < FirstErr
           /\ \A j \in RetIdx : j >= FirstErr => Log[j].res = Err(result.err)
      /\ \A i \in DerivedCalls :
           LET src == SourceFields(Log[i].ty, Log[i].props)
           IN  \A k1, k2 \in DeferredKeys(src) :
                 /\ \A j1 \in ChildCalls(i, k1), j2 \in ChildCalls(i, k2) :
                      FieldIdx(src, k1) < FieldIdx(src, k2) => RetOf(j1) < j2
                 /\ ( /\ FieldIdx(src, k1) < FieldIdx(src, k2)
                      /\ \E j1 \in ChildCalls(i, k1) : ~Log[RetOf(j1)].res.ok )
                    => ChildCalls(i, k2) = {}

\* C3 witness: Outer's `first` and `second` both hold failing nested props;
\* FailA's error came back and FailB's construct never ran.
C3_Witness ==
    /\ call.op = "construct"
    /\ call.target = <<"Outer">>
    /\ call.arg.val.fields["first"] = ConstructProp_Props([cp |-> "bad"])
    /\ call.arg.val.fields["second"] = ConstructProp_Props([cp |-> "bad"])
    /\ result = Err(CustomError("FailA"))
    /\ \E j \in CallIdx : Log[j].ty = "Leaf"
    /\ ~\E j \in CallIdx : Log[j].ty = "FailB"

\* Log positions where a tuple element's construct is entered.
ElemCalls == {j \in CallIdx : Len(Log[j].at) = 1}

ElemCall(e) == CHOOSE j \in ElemCalls : Log[j].at = <<IndexStr[e]>>

\* The index of the first element whose props make its construct fail, or
\* one past the arity.
FirstBad(ts, ps) ==
    LET bad == {e \in 1..Len(ts) : ExpectedErr(ts[e], ps[e]) # NoValue}
    IN  IF bad = {} THEN Len(ts) + 1 ELSE CHOOSE e \in bad : \A m \in bad : e <= m

\* C4: ConstructTuple constructs its elements left to right against the
\* one context: element e is entered only after elements before it returned
\* Ok, with its own props and the world as left by them; at the first
\* failing element it returns that element's error and enters no element to
\* its right; with no failure it returns Ok of the elements' values in order.
C4_TupleLeftToRightShortCircuit ==
    call.op = "tuple" =>
      LET ts == call.target
          ps == call.arg.val.tuple
          n == Len(ts)
          m == IF FirstBad(ts, ps) <= n THEN FirstBad(ts, ps) ELSE n
      IN  /\ Cardinality(ElemCalls) = m
          /\ \A e \in 1..m :
               /\ \E j \in ElemCalls : Log[j].at = <<IndexStr[e]>>
               /\ Log[ElemCall(e)].ty = ts[e]
               /\ Log[ElemCall(e)].props = ps[e]
               /\ Log[ElemCall(e)].saw = Log[ElemCall(e) - 1].saw
               /\ e < m => /\ Log[RetOf(ElemCall(e))].res.ok
                           /\ RetOf(ElemCall(e)) < ElemCall(e + 1)
          /\ IF FirstBad(ts, ps) <= n
             THEN /\ result = Err(Log[RetOf(ElemCall(m))].res.err)
                  /\ result = Err(CustomError(ts[m]))
             ELSE /\ IsOk(result)
                  /\ result.val.ty = "ConstructTuple"
                  /\ Len(result.val.elems) = n
                  /\ \A e \in 1..n :
                       /\ result.val.elems[e] = Log[RetOf(ElemCall(e))].res.val
                       /\ ts[e] \in BlanketTypes => result.val.elems[e] = ps[e]
                       /\ ts[e] \in CustomTypes =>
                            result.val.elems[e] = [ty |-> ts[e], v |-> "built"]

\* C4 witness: a tuple whose first element succeeded and whose second
\* failed: one mutation each, the second element's error returned.
C4_Witness ==
    /\ call.op = "tuple"
    /\ call.target = <<"Leaf", "FailA">>
    /\ Cardinality(ElemCalls) = 2
    /\ result = Err(CustomError("FailA"))
    /\ Len(world) = Len(call.pre) + 2

\* C6: the blanket implementation returns Ok(props) with the value
\* unchanged and the world untouched, wherever it is called; from the
\* default props it yields the type's default value.
C6_BlanketReturnsProps ==
    Called =>
      /\ \A i \in CallIdx :
           Log[i].ty \in BlanketTypes =>
             /\ RetOf(i) = i + 1
             /\ Log[i + 1].res = Ok(Log[i].props)
             /\ Log[i + 1].saw = Log[i].saw
      /\ (call.op = "construct" /\ call.target[1] \in BlanketTypes) =>
             /\ result = Ok(call.arg.val)
             /\ world = call.pre
             /\ call.arg.val = PropsDefault(call.target[1])
                  => result = Ok(NaturalDefault(call.target[1]))

\* C6 witness: a u8 constructed from props other than its default.
C6_Witness ==
    /\ call.op = "construct"
    /\ call.target = <<"u8">>
    /\ call.arg.val = [prim |-> 1]
    /\ result = Ok([prim |-> 1])

\* The mutation each hand-written construct entered in the log makes.
RECURSIVE MutationsOf(_)
MutationsOf(log) ==
    IF log = <<>> THEN <<>>
    ELSE IF log[1].ev = "call" /\ log[1].ty \in CustomTypes
         THEN <<[by |-> log[1].ty, props |-> log[1].props]>> \o MutationsOf(Tail(log))
         ELSE MutationsOf(Tail(log))

\* C7: when a construct call (of a type, of a tuple or through a
\* descriptor) fails, the
\* world holds, after what it held before the call, exactly the mutations of
\* the nested constructs entered up to the failure, in order: nothing is
\* rolled back, nothing of a later field or element is present, and the
\* caller receives the error alone.
C7_NoRollbackOnFailure ==
    (Called /\ IsErr(result)) =>
      /\ IsPrefix(call.pre, world)
      /\ world = call.pre \o MutationsOf(Log)
      /\ world = Log[FirstErr].saw
      /\ \A j \in CallIdx : j < FirstErr
      /\ DOMAIN result = {"ok", "err"}
      /\ held = NoValue

\* C7 witness: Outer failed at `first` after `inner` had been resolved: the
\* mutation made for inner.leaf and the one made by the failing construct
\* are both in the world.
C7_Witness ==
    /\ call.op = "construct"
    /\ call.target = <<"Outer">>
    /\ result = Err(CustomError("FailA"))
    /\ call.arg.val.fields["second"].tag = "Props"
    /\ world = call.pre \o <<[by |-> "Leaf", props |-> [cp |-> "ok"]],
                             [by |-> "FailA", props |-> [cp |-> "bad"]]>>

\* C8: the descriptor derived from S, called with a boxed value of type
\* S::Props, returns what S::construct returns on the same world and props
\* (the instance boxed, or the same error) and leaves the same world; called
\* with a box of another type it panics, returns no ConstructError and does
\* not touch the world; a box made by its default_props has type S::Props
\* and never makes it panic.
C8_ReflectBridge ==
    call.op = "reflect" =>
      LET S == call.target[1]
          direct == construct(S, call.pre, NoCalls, call.arg.val)
      IN  /\ IF call.arg.type_id = PropsTypeId(S)
             THEN /\ Log = direct.calls.log
                  /\ world = direct.world
                  /\ direct.res.ok =>
                       result = Ok([type_id |-> <<S>>, val |-> direct.res.val])
                  /\ ~direct.res.ok => result = Err(direct.res.err)
             ELSE /\ result = Panic
                  /\ world = call.pre
                  /\ Log = <<>>
          /\ (call.arg.via = "default_props" /\ call.arg.target = <<S>>) =>
               /\ call.arg.type_id = PropsTypeId(S)
               /\ result # Panic

\* C8 witness: default_props of Inner's descriptor fed to the same
\* descriptor, which built a boxed Inner.
C8_Witness ==
    /\ call.op = "reflect"
    /\ call.target = <<"Inner">>
    /\ call.arg.via = "default_props"
    /\ IsOk(result)
    /\ result.val.type_id = <<"Inner">>
    /\ Len(world) = Len(call.pre) + 1

\* C8 second case reached: a box of another type made the descriptor panic.
C8_PanicReached ==
    call.op = "reflect" /\ result = Panic

\* C9 as stated: every props field carries exactly the visibility qualifier
\* of its source field, whatever that qualifier is.
C9_VisibilityExact ==
    \A t \in DOMAIN expanded :
      expanded[t].data = "struct" =>
        \A i \in DOMAIN expanded[t].props_type.props_fields :
          expanded[t].props_type.props_fields[i].vis = TypeDefs[t].fields.fields[i].vis

\* C9 amended: a props field is `pub` exactly when its source field is
\* `pub`; a source field with any other visibility (pub(crate), pub(super),
\* pub(in path) or private) yields a props field with no qualifier.
C9_VisibilityPubOrPrivate ==
    \A t \in DOMAIN expanded :
      expanded[t].data = "struct" =>
        /\ Len(expanded[t].props_type.props_fields) = Len(TypeDefs[t].fields.fields)
        /\ \A i \in DOMAIN expanded[t].props_type.props_fields :
             expanded[t].props_type.props_fields[i].vis =
               IF TypeDefs[t].fields.fields[i].vis = "pub" THEN "pub" ELSE "inherited"

\* C9 witness: the derive has been expanded on Outer, whose fields are
\* pub(crate), pub and private.
C9_Witness ==
    /\ "Outer" \in DOMAIN expanded
    /\ expanded["Outer"].props_type.props_fields[1].vis = "inherited"
    /\ TypeDefs["Outer"].fields.fields[1].vis = "pub(crate)"
    /\ expanded["Outer"].props_type.props_fields[2].vis = "pub"

\* The props value C5 names as the default of an enum's props type: the
\* first declared variant with every field at its own default.
FirstVariantDefault(t) ==
    LET v == TypeDefs[t].variants[1]
    IN  [props_of |-> t, variant |-> v.ident,
         fields |-> [k \in FieldKeys(v.fields) |->
                       IF PROP \in FieldAt(v.fields, k).attrs
                       THEN ConstructProp_Props(PropsDefault(FieldAt(v.fields, k).ty))
                       ELSE NaturalDefault(FieldAt(v.fields, k).ty)]]

\* C5: the props type generated for an enum has a default value, and it is
\* the props variant of the first declared variant with all of its fields
\* at their own defaults.
C5_EnumDefaultIsFirstVariant ==
    \A t \in DOMAIN expanded :
      expanded[t].data = "enum" =>
        /\ expanded[t].default_impl # <<>>
        /\ PropsDefault(t) = FirstVariantDefault(t)

\* C10: the construct generated for an enum returns, on success, the
\* variant its props name, with the same field keys, each direct field
\* copied, each deferred field the held value or what the nested construct
\* returned; a fieldless variant maps to itself with no nested call and no
\* change of the world.
C10_EnumVariantPreserved ==
    Called =>
      \A i \in CallIdx :
        Log[i].ty \in EnumTypes =>
          LET p == Log[i].props
              src == VariantFields(Log[i].ty, p.variant)
              ret == Log[RetOf(i)]
          IN  /\ ret.res.ok =>
                   /\ ret.res.val.ty = Log[i].ty
                   /\ ret.res.val.variant = p.variant
                   /\ DOMAIN ret.res.val.fields = FieldKeys(src)
                   /\ \A k \in DirectKeys(src) : ret.res.val.fields[k] = p.fields[k]
                   /\ \A k \in DeferredKeys(src) :
                        IF p.fields[k].tag = "Value"
                        THEN ret.res.val.fields[k] = p.fields[k].val
                        ELSE \E j \in ChildCalls(i, k) :
                               /\ Log[j].props = p.fields[k].val
                               /\ ret.res.val.fields[k] = Log[RetOf(j)].res.val
              /\ Len(src.fields) = 0 =>
                   /\ ret.res.ok
                   /\ RetOf(i) = i + 1
                   /\ ret.saw = Log[i].saw

\* C10 witness: Shape::V2 built from ShapeProps::V2 with its deferred field
\* resolved from nested props and its direct field set to 1.
C10_Witness ==
    /\ call.op = "construct"
    /\ call.target = <<"Shape">>
    /\ call.arg.val.variant = "V2"
    /\ call.arg.val.fields["0"] = ConstructProp_Props([cp |-> "ok"])
    /\ call.arg.val.fields["1"] = [prim |-> 1]
    /\ IsOk(result)
    /\ result.val.variant = "V2"

\* C10 fieldless case reached: Shape::V3 built from ShapeProps::V3.
C10_UnitReached ==
    call.op = "construct" /\ IsOk(result) /\ result.val = [ty |-> "Shape", variant |-> "V3", fields |-> <<>>]

====
